---- MODULE Spec2Model ----
(***************************************************************************)
(* Model of the Azure Analysis Services API route of aas-connect           *)
(* (src/src/app/api/get-aas-data/route.ts): one POST run, from the         *)
(* configuration and Authorization checks through the promise executor     *)
(* that wires a tedious Connection and Request to one resolve callback.    *)
(*                                                                         *)
(* The transport (tedious) is an external library: it is modelled as an    *)
(* environment that may emit any of the events the route subscribes to,    *)
(* in any order and any number of times, once the object that carries the  *)
(* subscription has been handed to it (the connection by connect(), the    *)
(* request by execSql()).  Each handler is an operator from the run's      *)
(* state to the run's state, translated statement by statement.            *)
(*                                                                         *)
(* Strings the code inspects (the Authorization header, the connection     *)
(* string) are sequences: of characters for the header, of lexical tokens  *)
(* for the connection string.  Error objects are their message.            *)
(*                                                                         *)
(* The page that calls the route is modelled next to it: AuthGuard as the  *)
(* function from its hooks' values to what it renders, HomePage as its     *)
(* three state cells, and FetchDataButton.handleFetchData as a process     *)
(* with one step per synchronous stretch between two awaits.  MSAL and     *)
(* fetch are the environment: a promise the handler awaits settles with    *)
(* any of the outcomes its callee can produce.                             *)
(***************************************************************************)
EXTENDS Integers, Sequences, FiniteSets, TLC

VARIABLES
    aasConnectionString,  \* process.env.NEXT_PUBLIC_AAS_SERVER_URL (module level)
    aasDatabaseName,      \* process.env.NEXT_PUBLIC_AAS_DATABASE   (module level)
    authHeader,           \* request.headers.get('Authorization')
    pc,                   \* position of POST: "start", "pending", "returned"
    session,              \* the state one run of POST owns (closure + connection)
    log,                  \* the transport events handled so far, in order
    pc2,                  \* position of a concurrent second run of POST, or "none"
    session2,             \* the state the second run owns
    log2,                 \* the transport events the second run has handled
    msal,                 \* useMsal(): inProgress and the number of accounts
    isClient,             \* AuthGuard: const [isClient, setIsClient] = useState(false)
    page                  \* HomePage's state and the handleFetchData call in flight

vars == <<aasConnectionString, aasDatabaseName, authHeader, pc, session, log,
          pc2, session2, log2, msal, isClient, page>>

\* The variables of the route and the variables of the page.
routeVars == <<aasConnectionString, aasDatabaseName, authHeader, pc, session,
               log, pc2, session2, log2>>
clientVars == <<msal, isClient, page>>

(***************************************************************************)
(* Bounds and input sets                                                   *)
(***************************************************************************)
MaxEvents == 4            \* transport events handled in one run
MaxConcurrentEvents == 3  \* transport events handled by two concurrent runs

NoError == "<null>"       \* connectionError = null, err = undefined
ConnMsgs == {"c1", "c2"}  \* messages of connection-phase errors
QueryMsgs == {"q1", "q2"} \* messages of query-phase errors
ThrowMsgs == {"x1"}       \* messages of synchronously thrown errors

\* A tedious ColumnValue: metadata may be missing, colName may be empty.
Col(hasMeta, name, v) == [metadata |-> hasMeta, colName |-> name, value |-> v]

RowNames == {"r1", "r2", "r3"}

\* The raw rows (ColumnValue[]) the transport can emit.
RawRow(r) ==
    CASE r = "r1" -> <<Col(TRUE, "a", 1)>>
      [] r = "r2" -> <<Col(TRUE, "a", 2), Col(TRUE, "b", 7)>>
      [] OTHER    -> <<Col(TRUE, "b", 3), Col(FALSE, "z", 9), Col(TRUE, "", 8),
                       Col(TRUE, "a", 4), Col(TRUE, "b", 5)>>

\* A string as the sequence of its characters.  headers.get returns a value
\* without leading or trailing whitespace, so no header ends with a space.
Absent == [present |-> FALSE, text |-> <<>>]
Header(t) == [present |-> TRUE, text |-> t]
BearerPrefix == <<"B", "e", "a", "r", "e", "r", " ">>

AuthHeaders ==
    { Absent,
      Header(<<>>),
      Header(<<"B", "a", "s", "i", "c", " ", "t">>),
      Header(<<"B", "e", "a", "r", "e", "r">>),
      Header(BearerPrefix \o <<" ", "t">>),
      Header(BearerPrefix \o <<"t">>) }

\* A connection string as the sequence of its lexical tokens; <<>> is the
\* unset (undefined or empty) environment variable.
AzureHosts == {"eastus.asazure.windows.net", "srv.eastus.asazure.windows.net"}

ConnectionStrings ==
    { <<>>,
      <<"asazure://", "eastus.asazure.windows.net", "/", "srv">>,
      <<"srv.eastus.asazure.windows.net">> }

DatabaseNames == {<<>>, <<"d", "b">>}

(***************************************************************************)
(* Pure helpers                                                            *)
(***************************************************************************)
StartsWith(s, p) == Len(s) >= Len(p) /\ SubSeq(s, 1, Len(p)) = p

\* Index of the first occurrence of c in s at or after i; Len(s) + 1 if none.
RECURSIVE IndexFrom(_, _, _)
IndexFrom(s, c, i) ==
    IF i > Len(s) THEN Len(s) + 1
    ELSE IF s[i] = c THEN i
    ELSE IndexFrom(s, c, i + 1)

\* s.split(c): the pieces of s between the occurrences of c.
RECURSIVE SplitFrom(_, _, _)
SplitFrom(s, c, i) ==
    LET j == IndexFrom(s, c, i)
    IN  IF j > Len(s) THEN <<SubSeq(s, i, Len(s))>>
        ELSE <<SubSeq(s, i, j - 1)>> \o SplitFrom(s, c, j + 1)

Split(s, c) == SplitFrom(s, c, 1)

\* result[name] = v on an object kept as its properties in insertion order:
\* an existing key keeps its place and takes the new value.
SetProp(obj, name, v) ==
    IF \E i \in 1..Len(obj) : obj[i].key = name
    THEN [i \in 1..Len(obj) |->
            IF obj[i].key = name THEN [key |-> name, value |-> v] ELSE obj[i]]
    ELSE Append(obj, [key |-> name, value |-> v])

RECURSIVE ParseRowFrom(_, _, _)
ParseRowFrom(row, i, result) ==
    IF i > Len(row) THEN result
    ELSE ParseRowFrom(row, i + 1,
            IF row[i].metadata /\ row[i].colName # ""
            THEN SetProp(result, row[i].colName, row[i].value)
            ELSE result)

parseRow(row) == ParseRowFrom(row, 1, <<>>)

getFqdnFromAasConnectionString(connectionString) ==
    IF connectionString = <<>> THEN <<>>
    ELSE
      LET serverIdentifier ==
              IF StartsWith(connectionString, <<"asazure://">>)
              THEN SubSeq(connectionString, 2, Len(connectionString))
              ELSE connectionString
          parts == Split(serverIdentifier, "/")
          Includes(p) == \E i \in 1..Len(p) : p[i] \in AzureHosts
      IN  IF Len(parts) = 2 /\ Includes(parts[1])
          THEN parts[2] \o <<".">> \o parts[1]
          ELSE serverIdentifier

aasServerFqdn == getFqdnFromAasConnectionString(aasConnectionString)

(***************************************************************************)
(* Responses                                                               *)
(***************************************************************************)
NoValue == [status |-> 0, isArray |-> FALSE, rows |-> <<>>, text |-> "", detail |-> ""]

\* NextResponse.json(rows): a JSON array, default status 200.
JsonRows(rows) ==
    [status |-> 200, isArray |-> TRUE, rows |-> rows, text |-> "", detail |-> ""]

\* NextResponse.json({ message: text + detail }, { status }).
JsonMessage(text, detail, st) ==
    [status |-> st, isArray |-> FALSE, rows |-> <<>>, text |-> text, detail |-> detail]

ConfigMsg == "Server configuration error."
AuthMsg == "Authorization header is missing or invalid."
EndMsg == "Failed to connect to AAS: "
CompletedMsg == "DAX query execution failed or connection error: "
ExecThrowMsg == "Synchronous error during query execution: "
ConnectThrowMsg == "Failed to initiate connection to AAS: "
GuardMsg == "Connection was closed or in an error state before query execution."

(***************************************************************************)
(* The state of one run                                                    *)
(***************************************************************************)
NewSession ==
    [ created         |-> FALSE,    \* new Connection(config) was evaluated
      token           |-> <<>>,     \* config.authentication.options.token
      server          |-> <<>>,     \* config.server
      connectCalls    |-> 0,        \* calls of connection.connect()
      connecting      |-> FALSE,    \* connect() returned: the transport runs
      closed          |-> FALSE,    \* connection.closed
      closeCalls      |-> 0,        \* calls of connection.close()
      requests        |-> 0,        \* TediousRequest objects constructed
      execSqlCalls    |-> 0,        \* calls of connection.execSql()
      submitted       |-> 0,        \* execSql() calls that returned
      results         |-> <<>>,     \* results: AASData[]
      connectionError |-> NoError,  \* connectionError: Error | null
      settled         |-> FALSE,    \* the promise POST returns is settled
      value           |-> NoValue,  \* the response the caller observes
      resolves        |-> <<>>,     \* every call that delivers a response
      handled         |-> 0 ]       \* transport events the run has handled

\* Variant of Resolve in which a later call replaces the delivered response.
ResolveOverwrites(s, by, v) ==
    [s EXCEPT !.settled = TRUE,
              !.value = v,
              !.resolves = Append(@, [by |-> by, value |-> v,
                                      closeRequested |-> s.closeCalls > 0,
                                      closed |-> s.closed,
                                      error |-> s.connectionError,
                                      at |-> s.handled])]

\* resolve(v) of the promise executor, or a return of the async function:
\* the first call settles the promise, later calls leave it as it is.
\* Each call is recorded with the handler that made it, whether close() had
\* been called before it, connectionError as the call finds it, and the
\* number of events handled before it.
Resolve(s, by, v) ==
    [s EXCEPT !.settled = TRUE,
              !.value = IF s.settled THEN s.value ELSE v,
              !.resolves = Append(@, [by |-> by, value |-> v,
                                      closeRequested |-> s.closeCalls > 0,
                                      closed |-> s.closed,
                                      error |-> s.connectionError,
                                      at |-> s.handled])]

\* A handler of the run has returned.
Handled(s) == [s EXCEPT !.handled = @ + 1]

\* connection.close(): the request to close; tedious marks the connection
\* closed at once and emits 'end' later.
Close(s) == [s EXCEPT !.closeCalls = @ + 1, !.closed = TRUE]

(***************************************************************************)
(* The handlers of the promise executor                                    *)
(***************************************************************************)
\* Variant of executeStatement whose catch block records the error and
\* closes, leaving the response to a later event.
executeStatementCatchSilent(s, thrown) ==
    LET s1 == [s EXCEPT !.requests = @ + 1]
    IN  IF s1.closed \/ s1.connectionError # NoError
        THEN LET s2 == IF s1.connectionError = NoError
                       THEN [s1 EXCEPT !.connectionError = GuardMsg]
                       ELSE s1
             IN  IF ~s2.closed THEN Close(s2) ELSE s2
        ELSE IF thrown = NoError
        THEN [s1 EXCEPT !.execSqlCalls = @ + 1, !.submitted = @ + 1]
        ELSE Close([s1 EXCEPT !.execSqlCalls = @ + 1, !.connectionError = thrown])

\* Variant of executeStatement without the guard in front of execSql.
executeStatementUnguarded(s, thrown) ==
    LET s1 == [s EXCEPT !.requests = @ + 1]
    IN  IF thrown = NoError
        THEN [s1 EXCEPT !.execSqlCalls = @ + 1, !.submitted = @ + 1]
        ELSE LET s2 == [s1 EXCEPT !.execSqlCalls = @ + 1]
                 s3 == IF s2.connectionError = NoError
                       THEN [s2 EXCEPT !.connectionError = thrown]
                       ELSE s2
                 s4 == Resolve(s3, "execSqlCatch",
                               JsonMessage(ExecThrowMsg, s3.connectionError, 500))
             IN  IF ~s4.closed THEN Close(s4) ELSE s4

\* Variant of executeStatement that creates the request and leaves the
\* execSql call to a later turn.
executeStatementDeferred(s, thrown) ==
    LET s1 == [s EXCEPT !.requests = @ + 1]
    IN  IF s1.closed \/ s1.connectionError # NoError
        THEN LET s2 == IF s1.connectionError = NoError
                       THEN [s1 EXCEPT !.connectionError = GuardMsg]
                       ELSE s1
             IN  IF ~s2.closed THEN Close(s2) ELSE s2
        ELSE s1

\* executeStatement(): the request and its handlers are created, then the
\* guarded execSql call; thrown is the error execSql throws, if any.
executeStatement(s, thrown) ==
    LET s1 == [s EXCEPT !.requests = @ + 1]
    IN  IF s1.closed \/ s1.connectionError # NoError
        THEN LET s2 == IF s1.connectionError = NoError
                       THEN [s1 EXCEPT !.connectionError = GuardMsg]
                       ELSE s1
             IN  IF ~s2.closed THEN Close(s2) ELSE s2
        ELSE IF thrown = NoError
        THEN [s1 EXCEPT !.execSqlCalls = @ + 1, !.submitted = @ + 1]
        ELSE LET s2 == [s1 EXCEPT !.execSqlCalls = @ + 1]
                 s3 == IF s2.connectionError = NoError
                       THEN [s2 EXCEPT !.connectionError = thrown]
                       ELSE s2
                 s4 == Resolve(s3, "execSqlCatch",
                               JsonMessage(ExecThrowMsg, s3.connectionError, 500))
             IN  IF ~s4.closed THEN Close(s4) ELSE s4

\* connection.on('connect', (err) => ...)
OnConnect(s, err, thrown) ==
    IF err # NoError
    THEN [s EXCEPT !.connectionError = err]
    ELSE executeStatement(s, thrown)

\* Variant of OnEnd that leaves out { status: 500 }.
OnEndDefaultStatus(s) ==
    IF s.connectionError # NoError
    THEN Resolve(s, "end", JsonMessage(EndMsg, s.connectionError, 200))
    ELSE IF Len(s.results) = 0
    THEN Resolve(s, "end", JsonRows(<<>>))
    ELSE s

\* connection.on('end', () => ...)
OnEnd(s) ==
    IF s.connectionError # NoError
    THEN Resolve(s, "end", JsonMessage(EndMsg, s.connectionError, 500))
    ELSE IF Len(s.results) = 0
    THEN Resolve(s, "end", JsonRows(<<>>))
    ELSE s

\* connection.on('error', (err) => ...)
OnConnectionError(s, err) ==
    IF s.connectionError = NoError THEN [s EXCEPT !.connectionError = err] ELSE s

\* Variant of OnRequestCallback that logs the error without recording it.
OnRequestCallbackDropsError(s, err) == s

\* new TediousRequest(DAX_QUERY, (err, rowCount) => ...)
OnRequestCallback(s, err) ==
    IF err # NoError /\ s.connectionError = NoError
    THEN [s EXCEPT !.connectionError = err]
    ELSE s

\* Variant of OnRow that puts the new row in front (unshift for push).
OnRowUnshift(s, columns) == [s EXCEPT !.results = <<parseRow(columns)>> \o @]

\* tediousRequest.on('row', (columns) => ...)
OnRow(s, columns) == [s EXCEPT !.results = Append(@, parseRow(columns))]

\* Variant of OnRequestCompleted that reports an empty result as a failure.
OnRequestCompletedEmptyFails(s) ==
    LET s1 == IF s.connectionError = NoError /\ Len(s.results) > 0
              THEN Resolve(s, "requestCompleted", JsonRows(s.results))
              ELSE Resolve(s, "requestCompleted",
                           JsonMessage(CompletedMsg, s.connectionError, 500))
    IN  [s1 EXCEPT !.closeCalls = @ + 1, !.closed = TRUE]

\* Variant of OnRequestCompleted that resolves with the rows whatever
\* connectionError is.
OnRequestCompletedIgnoresError(s) ==
    Close(Resolve(s, "requestCompleted", JsonRows(s.results)))

\* tediousRequest.on('requestCompleted', () => ...)
OnRequestCompleted(s) ==
    LET s1 == IF s.connectionError = NoError
              THEN Resolve(s, "requestCompleted", JsonRows(s.results))
              ELSE Resolve(s, "requestCompleted",
                           JsonMessage(CompletedMsg, s.connectionError, 500))
    IN  Close(s1)

\* tediousRequest.on('error', (err) => ...)
OnRequestError(s, err) ==
    IF s.connectionError = NoError THEN [s EXCEPT !.connectionError = err] ELSE s

\* authHeader.split(' ')[1]; undefined (no second piece) is kept as <<>>.
AccessToken(h) ==
    LET parts == Split(h.text, " ")
    IN  IF Len(parts) >= 2 THEN parts[2] ELSE <<>>

\* The promise executor up to the end of its synchronous part: the
\* connection is constructed and connect() is called; thrown is the error
\* connect() throws, if any.
Executor(s, token, thrown) ==
    LET s1 == [s EXCEPT !.created = TRUE, !.token = token,
                        !.server = aasServerFqdn, !.connectCalls = @ + 1]
    IN  IF thrown = NoError
        THEN [s1 EXCEPT !.connecting = TRUE]
        ELSE Resolve([s1 EXCEPT !.connectionError = thrown], "connectCatch",
                     JsonMessage(ConnectThrowMsg, thrown, 500))

\* Variant of POST that checks the Authorization header first.
POSTAuthFirst(s, thrown) ==
    IF ~authHeader.present \/ authHeader.text = <<>>
       \/ ~StartsWith(authHeader.text, BearerPrefix)
    THEN Resolve(s, "authCheck", JsonMessage(AuthMsg, "", 401))
    ELSE IF aasServerFqdn = <<>> \/ aasDatabaseName = <<>>
    THEN Resolve(s, "configCheck", JsonMessage(ConfigMsg, "", 500))
    ELSE Executor(s, AccessToken(authHeader), thrown)

\* Variant of POST that only checks that the header is there.
POSTPresenceOnly(s, thrown) ==
    IF aasServerFqdn = <<>> \/ aasDatabaseName = <<>>
    THEN Resolve(s, "configCheck", JsonMessage(ConfigMsg, "", 500))
    ELSE IF ~authHeader.present \/ authHeader.text = <<>>
    THEN Resolve(s, "authCheck", JsonMessage(AuthMsg, "", 401))
    ELSE Executor(s, AccessToken(authHeader), thrown)

\* Variant of POST that reports the header failure with status 500.
POSTAuthStatus500(s, thrown) ==
    IF aasServerFqdn = <<>> \/ aasDatabaseName = <<>>
    THEN Resolve(s, "configCheck", JsonMessage(ConfigMsg, "", 500))
    ELSE IF ~authHeader.present \/ authHeader.text = <<>>
            \/ ~StartsWith(authHeader.text, BearerPrefix)
    THEN Resolve(s, "authCheck", JsonMessage(AuthMsg, "", 500))
    ELSE Executor(s, AccessToken(authHeader), thrown)

\* export async function POST(request)
POST(s, thrown) ==
    IF aasServerFqdn = <<>> \/ aasDatabaseName = <<>>
    THEN Resolve(s, "configCheck", JsonMessage(ConfigMsg, "", 500))
    ELSE IF ~authHeader.present \/ authHeader.text = <<>>
            \/ ~StartsWith(authHeader.text, BearerPrefix)
    THEN Resolve(s, "authCheck", JsonMessage(AuthMsg, "", 401))
    ELSE Executor(s, AccessToken(authHeader), thrown)

(***************************************************************************)
(* The page: AuthGuard, HomePage and FetchDataButton                       *)
(***************************************************************************)
\* The MSAL context when the page loads: inProgress is an InteractionStatus
\* of @azure/msal-browser, accounts is accounts.length.
NewMsal(n) == [inProgress |-> "startup", accounts |-> n]

\* useIsAuthenticated(): an account is signed in.
isAuthenticated == msal.accounts > 0

\* What AuthGuard returns: the skeleton, the card with LoginButton, or its
\* children.
AuthGuard(client, inProgress, authenticated) ==
    IF ~client \/ inProgress = "startup" \/ inProgress = "handleRedirect"
    THEN "skeleton"
    ELSE IF ~authenticated /\ inProgress = "none"
    THEN "login"
    ELSE "children"

\* What the page shows in the current state.
Rendered == AuthGuard(isClient, msal.inProgress, isAuthenticated)

\* AASData[] | null
NoData == [isNull |-> TRUE, rows |-> <<>>]
Data(rows) == [isNull |-> FALSE, rows |-> rows]
DataSets == {Data(<<>>), Data(<<"r1">>), Data(<<"r1", "r2">>)}

\* HomePage's state cells (aasData, isLoading, error), the position of the
\* handleFetchData call (pc, retry: inside the try block of the popup
\* retry; status: apiResponse.status), and the calls of the three props
\* made for the last click.
NewPage ==
    [ aasData   |-> NoData,
      isLoading |-> FALSE,
      error     |-> NoError,
      pc        |-> "idle",
      retry     |-> FALSE,
      status    |-> 0,
      started   |-> 0,
      succeeded |-> 0,
      failed    |-> 0 ]

handleFetchStart(p) ==
    [p EXCEPT !.isLoading = TRUE, !.error = NoError, !.aasData = NoData]

handleFetchSuccess(p, data) ==
    [p EXCEPT !.aasData = data, !.isLoading = FALSE]

handleFetchError(p, errorMessage) ==
    [p EXCEPT !.error = errorMessage, !.isLoading = FALSE]

\* The props FetchDataButton calls; each call is counted.
onFetchStart(p) ==
    handleFetchStart([p EXCEPT !.started = 1, !.succeeded = 0, !.failed = 0,
                               !.retry = FALSE, !.status = 0])
onFetchSuccess(p, data) == handleFetchSuccess([p EXCEPT !.succeeded = @ + 1], data)
onFetchError(p, errorMessage) ==
    handleFetchError([p EXCEPT !.failed = @ + 1], errorMessage)

\* Error objects: name and message; the message may be empty.
Err(name, message) == [name |-> name, message |-> message]
InteractionNames == {"InteractionRequiredAuthError", "BrowserAuthError"}
TokenErrors ==
    {Err(n, m) : n \in InteractionNames \cup {"ClientAuthError"}, m \in {"", "t1"}}
FetchErrors == {Err("TypeError", "Failed to fetch")}
JsonErrors == {Err("SyntaxError", "Unexpected token")}

\* The responses of /api/get-aas-data the handler tells apart.
ApiStatuses == {200, 401, 500}
BodyMessages == {"", "b1"}

NoAccountMsg == "No active account. Please log in."
UnknownMsg == "An unknown error occurred during data fetching."
ApiFailedMsg(status) ==
    IF status = 401 THEN "API request failed with status 401"
    ELSE "API request failed with status 500"

\* message || fallback
OrElse(message, fallback) == IF message = "" THEN fallback ELSE message

\* catch (popupError) of the retry
PopupCatch(p, e) ==
    [onFetchError(p, OrElse(e.message, UnknownMsg)) EXCEPT !.pc = "idle"]

\* Variant of Catch whose else branch logs the error and reports nothing.
CatchLogsOnly(p, e) ==
    IF e.name \in InteractionNames
    THEN [p EXCEPT !.pc = "acquireTokenPopup", !.retry = TRUE]
    ELSE [p EXCEPT !.pc = "idle"]

\* catch (error) of the first attempt, up to its first await: the popup is
\* opened for the two MSAL error names, every other error is reported.
Catch(p, e) ==
    IF e.name \in InteractionNames
    THEN [p EXCEPT !.pc = "acquireTokenPopup", !.retry = TRUE]
    ELSE [onFetchError(p, OrElse(e.message, UnknownMsg)) EXCEPT !.pc = "idle"]

\* An error thrown at the handler's position: caught by the catch block of
\* the try block the handler is in.
Throw(p, e) == IF p.retry THEN PopupCatch(p, e) ELSE Catch(p, e)

(***************************************************************************)
(* Actions                                                                 *)
(***************************************************************************)
Event(ev, arg, thrown) == [ev |-> ev, arg |-> arg, thrown |-> thrown]

Init ==
    /\ aasConnectionString \in ConnectionStrings
    /\ aasDatabaseName \in DatabaseNames
    /\ authHeader \in AuthHeaders
    /\ pc = "start"
    /\ session = NewSession
    /\ log = <<>>
    /\ pc2 = "none"
    /\ session2 = NewSession
    /\ log2 = <<>>
    /\ msal = NewMsal(0) /\ isClient = FALSE /\ page = NewPage

Inputs == <<aasConnectionString, aasDatabaseName, authHeader>>

\* Variant of OtherRun for a connectionError declared at module level: what
\* one run records, the other run reads.
OtherRunSharedError(other, before, after) ==
    [other EXCEPT !.connectionError = after.connectionError]

\* What a step of one run does to the state of the other run: nothing.
\* connection, results and connectionError are declared inside the promise
\* executor, so each call of POST has its own; the module-level bindings
\* are constants.
OtherRun(other, before, after) == other

\* The frame of a step of the first run.
OtherRunOf1 ==
    /\ session2' = OtherRun(session2, session, session')
    /\ UNCHANGED <<pc2, log2>>

\* The frame of a step of the second run.
OtherRunOf2 ==
    /\ session' = OtherRun(session, session2, session2')
    /\ UNCHANGED <<pc, log>>

\* A request arrives and POST runs to its return or to the end of the
\* synchronous part of the promise executor.
Post ==
    /\ pc = "start"
    /\ \E thrown \in {NoError} \cup ThrowMsgs :
          session' = POST(session, thrown)
    /\ pc' = IF session'.created THEN "pending" ELSE "returned"
    /\ UNCHANGED <<Inputs, log>>
    /\ OtherRunOf1
    /\ UNCHANGED clientVars

\* The transport may emit connection events once connect() has returned.
ConnectionLive ==
    /\ pc = "pending" /\ session.connecting
    /\ Len(log) < MaxEvents
    /\ pc2 # "none" => Len(log) + Len(log2) < MaxConcurrentEvents

\* The transport may emit request events once execSql() has returned.
RequestLive == ConnectionLive /\ session.submitted > 0

\* execSql is reached by the 'connect' handler in this state.
ReachesExecSql(s, err) == err = NoError /\ ~s.closed /\ s.connectionError = NoError

ConnectEvent ==
    /\ ConnectionLive
    /\ \E err \in {NoError} \cup ConnMsgs, thrown \in {NoError} \cup ThrowMsgs :
          /\ thrown # NoError => ReachesExecSql(session, err)
          /\ session' = Handled(OnConnect(session, err, thrown))
          /\ log' = Append(log, Event("connect", err, thrown))
    /\ UNCHANGED <<Inputs, pc>>
    /\ OtherRunOf1
    /\ UNCHANGED clientVars

\* 'end': the connection is closed, by close() or by the transport itself.
EndEvent ==
    /\ ConnectionLive
    /\ session' = Handled(OnEnd([session EXCEPT !.closed = TRUE]))
    /\ log' = Append(log, Event("end", NoError, NoError))
    /\ UNCHANGED <<Inputs, pc>>
    /\ OtherRunOf1
    /\ UNCHANGED clientVars

ConnectionErrorEvent ==
    /\ ConnectionLive
    /\ \E err \in ConnMsgs :
          /\ session' = Handled(OnConnectionError(session, err))
          /\ log' = Append(log, Event("error", err, NoError))
    /\ UNCHANGED <<Inputs, pc>>
    /\ OtherRunOf1
    /\ UNCHANGED clientVars

RequestCallback ==
    /\ RequestLive
    /\ \E err \in {NoError} \cup QueryMsgs :
          /\ session' = Handled(OnRequestCallback(session, err))
          /\ log' = Append(log, Event("callback", err, NoError))
    /\ UNCHANGED <<Inputs, pc>>
    /\ OtherRunOf1
    /\ UNCHANGED clientVars

RowEvent ==
    /\ RequestLive
    /\ \E r \in RowNames :
          /\ session' = Handled(OnRow(session, RawRow(r)))
          /\ log' = Append(log, Event("row", r, NoError))
    /\ UNCHANGED <<Inputs, pc>>
    /\ OtherRunOf1
    /\ UNCHANGED clientVars

RequestCompletedEvent ==
    /\ RequestLive
    /\ session' = Handled(OnRequestCompleted(session))
    /\ log' = Append(log, Event("requestCompleted", NoError, NoError))
    /\ UNCHANGED <<Inputs, pc>>
    /\ OtherRunOf1
    /\ UNCHANGED clientVars

RequestErrorEvent ==
    /\ RequestLive
    /\ \E err \in QueryMsgs :
          /\ session' = Handled(OnRequestError(session, err))
          /\ log' = Append(log, Event("requestError", err, NoError))
    /\ UNCHANGED <<Inputs, pc>>
    /\ OtherRunOf1
    /\ UNCHANGED clientVars

Next ==
    \/ Post
    \/ ConnectEvent
    \/ EndEvent
    \/ ConnectionErrorEvent
    \/ RequestCallback
    \/ RowEvent
    \/ RequestCompletedEvent
    \/ RequestErrorEvent

Spec == Init /\ [][Next]_vars

(***************************************************************************)
(* Two concurrent runs: two requests of one client are in flight in the    *)
(* same process, and the transport delivers the events of their two        *)
(* connections in any interleaving.                                        *)
(***************************************************************************)
\* The handler the transport event e invokes, applied to the run's state.
Apply(s, e) ==
    CASE e.ev = "connect"          -> OnConnect(s, e.arg, e.thrown)
      [] e.ev = "end"              -> OnEnd([s EXCEPT !.closed = TRUE])
      [] e.ev = "error"            -> OnConnectionError(s, e.arg)
      [] e.ev = "callback"         -> OnRequestCallback(s, e.arg)
      [] e.ev = "row"              -> OnRow(s, RawRow(e.arg))
      [] e.ev = "requestCompleted" -> OnRequestCompleted(s)
      [] OTHER                     -> OnRequestError(s, e.arg)

ConnectionEvents ==
    {Event("connect", err, thrown) :
        err \in {NoError} \cup ConnMsgs, thrown \in {NoError} \cup ThrowMsgs}
    \cup {Event("end", NoError, NoError)}
    \cup {Event("error", err, NoError) : err \in ConnMsgs}

RequestEvents ==
    {Event("callback", err, NoError) : err \in {NoError} \cup QueryMsgs}
    \cup {Event("row", r, NoError) : r \in RowNames}
    \cup {Event("requestCompleted", NoError, NoError)}
    \cup {Event("requestError", err, NoError) : err \in QueryMsgs}

\* The events the transport may deliver to a run in state s.
Deliverable(s) ==
    IF ~s.connecting THEN {}
    ELSE {e \in ConnectionEvents : e.thrown # NoError => ReachesExecSql(s, e.arg)}
         \cup (IF s.submitted > 0 THEN RequestEvents ELSE {})

Init2 ==
    /\ aasConnectionString \in ConnectionStrings
    /\ aasDatabaseName \in DatabaseNames
    /\ authHeader \in AuthHeaders
    /\ pc = "start" /\ session = NewSession /\ log = <<>>
    /\ pc2 = "start" /\ session2 = NewSession /\ log2 = <<>>
    /\ msal = NewMsal(0) /\ isClient = FALSE /\ page = NewPage

\* The second request arrives.
Post2 ==
    /\ pc2 = "start"
    /\ \E thrown \in {NoError} \cup ThrowMsgs :
          session2' = POST(session2, thrown)
    /\ pc2' = IF session2'.created THEN "pending" ELSE "returned"
    /\ UNCHANGED <<Inputs, log2>>
    /\ OtherRunOf2
    /\ UNCHANGED clientVars

\* The second run handles a transport event.
Event2 ==
    /\ pc2 = "pending"
    /\ Len(log2) < MaxEvents
    /\ Len(log) + Len(log2) < MaxConcurrentEvents
    /\ \E e \in Deliverable(session2) :
          /\ session2' = Handled(Apply(session2, e))
          /\ log2' = Append(log2, e)
    /\ UNCHANGED <<Inputs, pc2>>
    /\ OtherRunOf2
    /\ UNCHANGED clientVars

Next2 ==
    \/ Next
    \/ Post2
    \/ Event2

TwoRuns == Init2 /\ [][Next2]_vars

(***************************************************************************)
(* The page in the browser: MSAL moves through its interaction states, the *)
(* user clicks what is rendered, and the promises handleFetchData awaits   *)
(* settle.  No request of the page is in flight in the route.              *)
(***************************************************************************)
ClientInit ==
    /\ aasConnectionString = <<"srv.eastus.asazure.windows.net">>
    /\ aasDatabaseName = <<"d", "b">>
    /\ authHeader = Absent
    /\ pc = "start" /\ session = NewSession /\ log = <<>>
    /\ pc2 = "none" /\ session2 = NewSession /\ log2 = <<>>
    /\ \E n \in {0, 1} : msal = NewMsal(n)
    /\ isClient = FALSE
    /\ page = NewPage

\* useEffect(() => { setIsClient(true); }, [])
MountEffect ==
    /\ ~isClient
    /\ isClient' = TRUE
    /\ UNCHANGED <<routeVars, msal, page>>

\* MsalProvider initializes the instance and handles a redirect response,
\* which may sign an account in.
MsalInitialized ==
    /\ msal.inProgress = "startup"
    /\ msal' = [msal EXCEPT !.inProgress = "handleRedirect"]
    /\ UNCHANGED <<routeVars, isClient, page>>

RedirectHandled ==
    /\ msal.inProgress = "handleRedirect"
    /\ \E n \in {msal.accounts, 1} :
          msal' = [msal EXCEPT !.inProgress = "none", !.accounts = n]
    /\ UNCHANGED <<routeVars, isClient, page>>

\* LoginButton.handleLogin: the login interaction begins.
HandleLogin ==
    /\ Rendered = "login"
    /\ msal' = [msal EXCEPT !.inProgress = "login"]
    /\ UNCHANGED <<routeVars, isClient, page>>

\* The login interaction ends, with an account signed in or without.
LoginSettles ==
    /\ msal.inProgress = "login"
    /\ \E n \in {msal.accounts, 1} :
          msal' = [msal EXCEPT !.inProgress = "none", !.accounts = n]
    /\ UNCHANGED <<routeVars, isClient, page>>

\* Header.handleLogout: the logout interaction begins.
HandleLogout ==
    /\ Rendered = "children" /\ msal.accounts > 0 /\ msal.inProgress = "none"
    /\ msal' = [msal EXCEPT !.inProgress = "logout"]
    /\ UNCHANGED <<routeVars, isClient, page>>

\* The logout interaction ends, with the account signed out or not.
LogoutSettles ==
    /\ msal.inProgress = "logout"
    /\ \E n \in {msal.accounts, 0} :
          msal' = [msal EXCEPT !.inProgress = "none", !.accounts = n]
    /\ UNCHANGED <<routeVars, isClient, page>>

\* A click on the button, which is rendered inside AuthGuard and disabled
\* while isLoading: handleFetchData up to its first await.
HandleFetchData ==
    /\ Rendered = "children" /\ ~page.isLoading
    /\ LET p1 == onFetchStart(page)
       IN  page' = IF msal.accounts = 0
                   THEN [onFetchError(p1, NoAccountMsg) EXCEPT !.pc = "idle"]
                   ELSE [p1 EXCEPT !.pc = "acquireTokenSilent"]
    /\ UNCHANGED <<routeVars, msal, isClient>>

\* await instance.acquireTokenSilent(tokenRequest) settles: fetch is called,
\* or the catch block runs and may open the popup, an interaction of its own
\* when no other is in progress.
SilentSettles ==
    /\ page.pc = "acquireTokenSilent"
    /\ \/ page' = [page EXCEPT !.pc = "fetch"]
       \/ \E e \in TokenErrors : page' = Throw(page, e)
    /\ msal' = IF page'.pc = "acquireTokenPopup" /\ msal.inProgress = "none"
               THEN [msal EXCEPT !.inProgress = "acquireToken"]
               ELSE msal
    /\ UNCHANGED <<routeVars, isClient>>

\* await instance.acquireTokenPopup(tokenRequest) settles.
PopupSettles ==
    /\ page.pc = "acquireTokenPopup"
    /\ \/ page' = [page EXCEPT !.pc = "fetch"]
       \/ \E e \in TokenErrors : page' = Throw(page, e)
    /\ msal' = IF msal.inProgress = "acquireToken"
               THEN [msal EXCEPT !.inProgress = "none"]
               ELSE msal
    /\ UNCHANGED <<routeVars, isClient>>

\* await fetch("/api/get-aas-data", ...) settles, in the first attempt or in
\* the retry: the body is read, of the rows or of the error.
FetchSettles ==
    /\ page.pc = "fetch"
    /\ \/ \E st \in ApiStatuses :
             page' = [page EXCEPT !.status = st,
                                  !.pc = IF st = 200 THEN "json" ELSE "errorJson"]
       \/ \E e \in FetchErrors : page' = Throw(page, e)
    /\ UNCHANGED <<routeVars, msal, isClient>>

\* await apiResponse.json() of a response that is not ok settles, and the
\* handler throws.
ErrorJsonSettles ==
    /\ page.pc = "errorJson"
    /\ \/ \E m \in BodyMessages :
             page' = Throw(page, Err("Error", OrElse(m, ApiFailedMsg(page.status))))
       \/ \E e \in JsonErrors : page' = Throw(page, e)
    /\ UNCHANGED <<routeVars, msal, isClient>>

\* await apiResponse.json() of an ok response settles.
JsonSettles ==
    /\ page.pc = "json"
    /\ \/ \E data \in DataSets :
             page' = [onFetchSuccess(page, data) EXCEPT !.pc = "idle"]
       \/ \E e \in JsonErrors : page' = Throw(page, e)
    /\ UNCHANGED <<routeVars, msal, isClient>>

ClientNext ==
    \/ MountEffect
    \/ MsalInitialized
    \/ RedirectHandled
    \/ HandleLogin
    \/ LoginSettles
    \/ HandleLogout
    \/ LogoutSettles
    \/ HandleFetchData
    \/ SilentSettles
    \/ PopupSettles
    \/ FetchSettles
    \/ ErrorJsonSettles
    \/ JsonSettles

Client == ClientInit /\ [][ClientNext]_vars

\* Every promise the handler awaits settles, and the event loop then runs
\* the handler's continuation.
FairClient ==
    /\ Client
    /\ WF_vars(SilentSettles)
    /\ WF_vars(PopupSettles)
    /\ WF_vars(FetchSettles)
    /\ WF_vars(ErrorJsonSettles)
    /\ WF_vars(JsonSettles)

(***************************************************************************)
(* Vocabulary of the properties                                            *)
(***************************************************************************)
IsSuccess(v) == v.isArray /\ v.status = 200
IsFailure(v) == ~v.isArray /\ v.status >= 400

IsConnectOk(e) == e.ev = "connect" /\ e.arg = NoError /\ e.thrown = NoError
IsConnectErr(e) == e.ev = "connect" /\ e.arg # NoError
IsConnPhaseErr(e) == IsConnectErr(e) \/ e.ev = "error"
IsQueryPhaseErr(e) ==
    \/ e.ev = "callback" /\ e.arg # NoError
    \/ e.ev = "requestError"
    \/ e.ev = "connect" /\ e.thrown # NoError

Seen(ev) == \E i \in 1..Len(log) : log[i].ev = ev

\* The run reached the promise executor.
Ran == pc = "pending"

\* The number of transport events handled when the response was delivered,
\* the event whose handler delivered it included.
EventsAtDelivery ==
    IF session.resolves[1].by \in {"configCheck", "authCheck", "connectCatch"}
    THEN 0
    ELSE session.resolves[1].at + 1

\* The parsed rows of the 'row' events among log[i..j], in order; computed
\* from the event log alone.
RECURSIVE EmittedRows(_, _)
EmittedRows(i, j) ==
    IF i > j THEN <<>>
    ELSE (IF log[i].ev = "row" THEN <<parseRow(RawRow(log[i].arg))>> ELSE <<>>)
         \o EmittedRows(i + 1, j)

(***************************************************************************)
(* C1..C10                                                                 *)
(***************************************************************************)
\* C1: the caller observes at most one Outcome: once the promise is
\* settled, no later call of resolve, by any handler, changes the response.
C1_OutcomeNeverChanges ==
    [][session.settled => session'.settled /\ session'.value = session.value]_vars

\* C1 witness: resolve was called again with a different response and the
\* delivered one is still the first.
C1_Witness ==
    /\ Len(session.resolves) >= 2
    /\ session.resolves[2].value # session.resolves[1].value
    /\ session.value = session.resolves[1].value

\* C2: once the 'end' handler has run, an Outcome has been delivered,
\* whatever connectionError and results are at that moment.
C2_EndDeliversOutcome == Seen("end") => session.settled

\* C3: when the Outcome is delivered (the first call of resolve),
\* connection.close() has already been requested on the run's connection.
C3_CloseRequestedBeforeOutcome ==
    (Ran /\ session.settled) => session.resolves[1].closeRequested

\* C4: if a connection-phase error and a query-phase error were both
\* observed before the Outcome was delivered, the Outcome carries the
\* message of a connection-phase error observed by then, in either order.
C4_ConnectionErrorPrecedence ==
    LET n == EventsAtDelivery
    IN  (/\ Ran /\ session.settled
         /\ \E i \in 1..n : IsConnPhaseErr(log[i])
         /\ \E i \in 1..n : IsQueryPhaseErr(log[i]))
        => /\ IsFailure(session.value)
           /\ \E i \in 1..n : IsConnPhaseErr(log[i]) /\ session.value.detail = log[i].arg

\* C5: connect(ok), then rows r1..rn, then 'requestCompleted', no error:
\* the Outcome is the Success whose rows are r1..rn in emission order.
C5_Scenario(k) ==
    /\ k >= 2 /\ k <= Len(log)
    /\ IsConnectOk(log[1])
    /\ log[k].ev = "requestCompleted"
    /\ \A i \in 2..(k - 1) :
          log[i].ev = "row" \/ (log[i].ev = "callback" /\ log[i].arg = NoError)

C5_RowsInEmissionOrder ==
    \A k \in 1..Len(log) :
        C5_Scenario(k) =>
            session.settled /\ session.value = JsonRows(EmittedRows(2, k - 1))

\* C5 witness: two different rows were emitted, then the query completed.
C5_Witness ==
    /\ Len(log) >= 4
    /\ C5_Scenario(4)
    /\ log[2].ev = "row" /\ log[3].ev = "row" /\ log[2].arg # log[3].arg
    /\ Len(session.value.rows) = 2

\* C6: the query completed, no row event was emitted and no error is
\* recorded: the Outcome is Success with an empty row array.
C6_ZeroRowsIsSuccess ==
    (Seen("requestCompleted") /\ ~Seen("row") /\ session.connectionError = NoError)
        => session.settled /\ session.value = JsonRows(<<>>)

\* C6 witness: the query completed right after the handshake.
C6_Witness ==
    /\ Len(log) >= 2 /\ IsConnectOk(log[1]) /\ log[2].ev = "requestCompleted"
    /\ ~Seen("row") /\ session.connectionError = NoError
    /\ IsSuccess(session.value)

\* C7: when the first transport event is connect(error: m), the delivered
\* Outcome is a status-500 Failure carrying m, never a Success.
C7_ConnectErrorFirst ==
    (Len(log) >= 1 /\ IsConnectErr(log[1]) /\ session.settled)
        => /\ IsFailure(session.value)
           /\ session.value.status = 500
           /\ session.value.detail = log[1].arg

\* C8: connect(ok), then the query completion signals error e with no row
\* event: the Outcome is a Failure carrying e, never Success([]).
C8_Scenario ==
    /\ Len(log) >= 3
    /\ IsConnectOk(log[1])
    /\ log[2].ev = "callback" /\ log[2].arg # NoError
    /\ log[3].ev = "requestCompleted"

C8_QueryErrorZeroRows ==
    C8_Scenario => /\ session.settled
                   /\ IsFailure(session.value)
                   /\ session.value.status = 500
                   /\ session.value.detail = log[2].arg

\* C8 witness: the scenario, followed by 'end' with the accumulator empty.
C8_Witness ==
    /\ C8_Scenario
    /\ Len(log) >= 4 /\ log[4].ev = "end"
    /\ Len(session.results) = 0

\* C9: connect(ok), one row, then a late connect(error) and
\* 'requestCompleted' handled in either order: the Outcome is a Failure
\* carrying the connection error.
C9_Scenario ==
    /\ Len(log) >= 4
    /\ IsConnectOk(log[1])
    /\ log[2].ev = "row"
    /\ \/ IsConnectErr(log[3]) /\ log[4].ev = "requestCompleted"
       \/ log[3].ev = "requestCompleted" /\ IsConnectErr(log[4])

C9_LateConnectError ==
    C9_Scenario
        => /\ session.settled
           /\ IsFailure(session.value)
           /\ session.value.detail \in {log[3].arg, log[4].arg} \ {NoError}

\* C10: resolve is invoked by the 'end' handler and by no other handler.
C10_OnlyEndResolves ==
    Ran => \A i \in 1..Len(session.resolves) : session.resolves[i].by = "end"

(***************************************************************************)
(* C11..C20                                                                *)
(***************************************************************************)
\* C11: the connection is never leaked: a run that created a Connection and
\* has delivered its Outcome has requested connection.close(), or the
\* connection is closed already.
C11_ConnectionReleased ==
    (Ran /\ session.settled) => (session.closeCalls > 0 \/ session.closed)

\* C12: when execSql throws synchronously, the handler records the thrown
\* error and requests close() in the same step, and the Outcome is, from
\* then on, the Failure carrying the thrown error's message.
C12_SyncThrow ==
    /\ [](\A k \in 1..Len(log) :
             log[k].thrown # NoError
                 => /\ session.settled
                    /\ session.value = JsonMessage(ExecThrowMsg, log[k].thrown, 500))
    /\ [][\A e \in {log'[i] : i \in (Len(log) + 1)..Len(log')} :
             e.thrown # NoError
                 => /\ session'.connectionError = e.thrown
                    /\ session'.closeCalls = session.closeCalls + 1
                    /\ session'.closed]_vars

\* C12 witness: execSql threw, and a later 'end' called resolve again.
C12_Witness ==
    /\ \E k \in 1..Len(log) : log[k].thrown # NoError
    /\ Len(session.resolves) >= 2
    /\ session.resolves[1].by = "execSqlCatch"
    /\ session.resolves[2].by = "end"

\* C13: one Connection, one connect() and at most one execSql() per run.
C13_SubmittedOnce ==
    Ran => session.connectCalls = 1 /\ session.execSqlCalls <= 1

\* C14: the error witness is first-wins within its category: a recorded
\* connection-phase error is not replaced by a later connection-phase
\* signal, nor a recorded query-phase error by a later query-phase signal.
C14_FirstWins ==
    [][\A e \in {log'[i] : i \in (Len(log) + 1)..Len(log')} :
          (\/ session.connectionError \in ConnMsgs /\ IsConnPhaseErr(e)
           \/ session.connectionError \in QueryMsgs \cup ThrowMsgs /\ IsQueryPhaseErr(e))
              => session'.connectionError = session.connectionError]_vars

\* The Authorization header is absent or does not start with 'Bearer '.
BadHeader == ~authHeader.present \/ ~StartsWith(authHeader.text, BearerPrefix)

\* The server URL or the database name is not configured.
ConfigMissing == aasConnectionString = <<>> \/ aasDatabaseName = <<>>

\* C15: a request whose Authorization header is absent or does not start
\* with 'Bearer ' never reaches the transport: no Connection, no connect(),
\* no execSql(), no close(), no transport event.
C15_NoTransportWithoutBearer ==
    BadHeader => /\ ~session.created
                 /\ session.connectCalls = 0
                 /\ session.execSqlCalls = 0
                 /\ session.closeCalls = 0
                 /\ log = <<>>

\* C15 witness: configured server, a header of another scheme, POST returned.
C15_Witness ==
    /\ BadHeader /\ authHeader.present /\ authHeader.text # <<>>
    /\ ~ConfigMissing
    /\ pc = "returned"

\* C16: with the server or the database not configured, POST returns the
\* status-500 configuration Failure and constructs no Connection, whatever
\* the Authorization header.
C16_ConfigFailure ==
    (ConfigMissing /\ pc # "start")
        => /\ pc = "returned"
           /\ session.value = JsonMessage(ConfigMsg, "", 500)
           /\ ~session.created
           /\ session.connectCalls = 0

\* C16 witness: configuration missing, with a well-formed bearer header.
C16_Witness ==
    /\ ConfigMissing /\ ~BadHeader
    /\ pc = "returned" /\ session.value.status = 500

\* C17: no Connection is constructed with an empty access token.
C17_NoEmptyToken == session.created => session.token # <<>>

\* C18 as stated: an absent or malformed Authorization header yields 401,
\* whatever the configuration.
C18_Always401 ==
    (BadHeader /\ pc # "start") => session.value.status = 401

\* C18 as amended: an absent or malformed Authorization header yields the
\* 401 Failure when server and database are configured, and the status-500
\* configuration Failure when they are not.
C18_401WhenConfigured ==
    (BadHeader /\ pc # "start")
        => /\ pc = "returned"
           /\ session.value = IF ConfigMissing
                              THEN JsonMessage(ConfigMsg, "", 500)
                              ELSE JsonMessage(AuthMsg, "", 401)

\* C18 witness: configured server, no Authorization header, 401 returned.
C18_Witness ==
    /\ ~authHeader.present /\ ~ConfigMissing
    /\ pc = "returned" /\ session.value.status = 401

\* C19: every response POST hands to the caller or to resolve is a row
\* array with status 200, a message with status 500, or the Authorization
\* message with status 401.
C19_Shape(v) ==
    \/ v.isArray /\ v.status = 200 /\ v.text = ""
    \/ /\ ~v.isArray /\ v.status = 500 /\ v.rows = <<>>
       /\ v.text \in {ConfigMsg, EndMsg, CompletedMsg, ExecThrowMsg, ConnectThrowMsg}
    \/ ~v.isArray /\ v.status = 401 /\ v.rows = <<>> /\ v.text = AuthMsg

C19_ResponseShapes ==
    /\ \A i \in 1..Len(session.resolves) : C19_Shape(session.resolves[i].value)
    /\ session.settled => C19_Shape(session.value)

\* C19 witness: one run called resolve with a row array and with a message.
C19_Witness ==
    /\ \E i \in 1..Len(session.resolves) : session.resolves[i].value.isArray
    /\ \E i \in 1..Len(session.resolves) :
          session.resolves[i].value.status = 500 /\ session.resolves[i].by = "end"

\* The state a run reaches when it handles the events lg alone.
RECURSIVE Replay(_, _, _)
Replay(s, lg, i) ==
    IF i > Len(lg) THEN s
    ELSE Replay(Handled(Apply(s, lg[i])), lg, i + 1)

AloneAfter(lg) == Replay(POST(NewSession, NoError), lg, 1)

FirstErrorEvent(k) ==
    /\ IsConnPhaseErr(log[k]) \/ IsQueryPhaseErr(log[k])
    /\ \A j \in 1..(k - 1) : ~(IsConnPhaseErr(log[j]) \/ IsQueryPhaseErr(log[j]))

\* C22: the query is never submitted once an error is recorded or the
\* connection is closed: after connect(error) or a connection 'error' event,
\* no later step of the run calls connection.execSql, a later connect(ok)
\* included.
C22_NoSubmitAfterError ==
    [][(\/ session.connectionError # NoError
        \/ session.closed
        \/ \E k \in 1..Len(log) : IsConnPhaseErr(log[k]))
          => session'.execSqlCalls = session.execSqlCalls]_vars

\* C22 witness: connect(error), then connect(ok): executeStatement ran and
\* did not call execSql.
C22_Witness ==
    /\ Len(log) >= 2 /\ IsConnectErr(log[1]) /\ IsConnectOk(log[2])
    /\ session.requests = 1 /\ session.execSqlCalls = 0

\* C23: every call of resolve made while connectionError is non-null passes
\* a Failure (status 500 with a message), and a delivered Success was
\* delivered with no error recorded.
C23_NoFailureSwallowed ==
    /\ \A i \in 1..Len(session.resolves) :
          session.resolves[i].error # NoError
              => /\ IsFailure(session.resolves[i].value)
                 /\ session.resolves[i].value.status = 500
                 /\ session.resolves[i].value.text # ""
    /\ (session.settled /\ IsSuccess(session.value))
          => session.resolves[1].error = NoError

\* C23 witness: 'requestCompleted' delivered a Failure although rows had
\* been accumulated.
C23_Witness ==
    /\ session.settled /\ IsFailure(session.value)
    /\ session.resolves[1].by = "requestCompleted"
    /\ session.resolves[1].error # NoError
    /\ Len(session.results) > 0

\* C24: the message of the delivered Failure names the phase of the first
\* error of the run: a query-phase error is not reported as a failure to
\* connect, a connection-phase error is not reported as a query failure.
\* The message of 'requestCompleted' names both phases and counts as
\* either.
C24_KindMatchesPhase ==
    \A k \in 1..Len(log) :
        (FirstErrorEvent(k) /\ session.settled /\ IsFailure(session.value))
            => /\ IsQueryPhaseErr(log[k]) => session.value.text # EndMsg
               /\ IsConnPhaseErr(log[k]) => session.value.text # ExecThrowMsg

\* C25: a connect(ok) handled with no error recorded and the connection
\* open calls connection.execSql in the step that handles it, and that step
\* handles no other event.
C25_SubmitInHandshakeStep ==
    [][\A e \in {log'[i] : i \in (Len(log) + 1)..Len(log')} :
          (/\ e.ev = "connect" /\ e.arg = NoError
           /\ ~session.closed /\ session.connectionError = NoError)
              => /\ session'.execSqlCalls = session.execSqlCalls + 1
                 /\ session'.requests = session.requests + 1
                 /\ session'.handled = session.handled + 1
                 /\ Len(log') = Len(log) + 1]_vars

\* C25 witness: the handshake succeeded and the one step that handled it
\* submitted the query.
C25_Witness ==
    /\ Len(log) = 1 /\ IsConnectOk(log[1])
    /\ session.handled = 1
    /\ session.execSqlCalls = 1 /\ session.submitted = 1

\* C26: a Success is delivered only when, by the time of the delivery, the
\* handshake had succeeded and 'requestCompleted' had been handled after it.
C26_SuccessNeedsCompletion ==
    (Ran /\ session.settled /\ IsSuccess(session.value))
        => \E k \in 1..EventsAtDelivery :
              /\ log[k].ev = "requestCompleted"
              /\ \E j \in 1..(k - 1) : IsConnectOk(log[j])

\* C21: when the user is not logged in, the client has mounted and MSAL is
\* past startup and redirect handling, AuthGuard shows the login button and
\* not its children, whatever inProgress is.
C21_LoginShownWhenLoggedOut ==
    (isClient /\ ~isAuthenticated
        /\ msal.inProgress \notin {"startup", "handleRedirect"})
        => Rendered = "login"

====
